---- MODULE Spec2Model ----
(***************************************************************************)
(* Group Assignment System (src/main.py): student registration, the        *)
(* assign_groups partition of unassigned students over the 25 subgroups,   *)
(* and the admin operations that change the stored record set.             *)
(*                                                                         *)
(* The stored record set (students_data.json) is the sequence `records`.   *)
(* Every handler runs in one script run: load_data(), the handler's        *)
(* change, save_data(), so one action is one handler, load and save        *)
(* included.                                                               *)
(***************************************************************************)
EXTENDS Integers, Sequences, FiniteSets, TLC

VARIABLES
    records,   \* content of DATA_FILE: sequence of student records
    before,    \* df as loaded by load_data() at the start of the last handler
    lastOp,    \* the last handler that ran
    msg,       \* the st.success / st.error outcome the last handler showed
    warning,   \* number of students the capacity st.warning reported (0: none)
    clock,     \* datetime.now(), one tick per handler that adds students
    stored,    \* Path(DATA_FILE).exists()
    session    \* per browser session: the script run in progress and its df

vars == <<records, before, lastOp, msg, warning, clock, stored, session>>

(***************************************************************************)
(* Bounds of the model.                                                    *)
(***************************************************************************)
MaxId == 2            \* distinct index numbers students type in
MaxClock == 2         \* handlers that add students, per behaviour
MaxCohort == 203      \* size of the cohort already stored (SpecCohort)
MaxLate == 1          \* registrations after the stored cohort (SpecCohort)
MaxFullShuffle == 3   \* list length up to which every permutation is drawn
MaxLines == 2         \* lines of one manual entry
MaxStored == 2        \* records stored before two sessions start (SpecSessions)

(***************************************************************************)
(* Program constants.                                                      *)
(***************************************************************************)
STUDENTS_PER_SUBGROUP == 8
MinNameLen == 3

NaN == "NaN"

Min(a, b) == IF a <= b THEN a ELSE b

Range(s) == {s[i] : i \in DOMAIN s}

primary_groups == <<"A", "B", "C", "D", "E">>
subgroups == <<"1", "2", "3", "4", "5">>

\* [(p, s) for p in primary_groups for s in subgroups]
all_groups ==
    [k \in 1..(Len(primary_groups) * Len(subgroups)) |->
        <<primary_groups[((k - 1) \div Len(subgroups)) + 1],
          subgroups[((k - 1) % Len(subgroups)) + 1]>>]

MAX_STUDENTS == Len(all_groups) * STUDENTS_PER_SUBGROUP

(***************************************************************************)
(* assign_groups                                                           *)
(***************************************************************************)

\* Mutant: the comparison inverted, so placed rows are selected
IsUnassigned_Inverted(r) == r.primary_group = NaN \/ r.primary_group # ""

\* df['primary_group'].isna() | (df['primary_group'] == '')
IsUnassigned(r) == r.primary_group = NaN \/ r.primary_group = ""

\* unassigned.index: the row labels of the unassigned rows, in row order
UnassignedIndex(df) ==
    SelectSeq([i \in 1..Len(df) |-> i], LAMBDA i : IsUnassigned(df[i]))

\* Mutant: tail() instead of head()
FirstMax_Tail(idx) ==
    IF Len(idx) > MAX_STUDENTS
    THEN SubSeq(idx, Len(idx) - MAX_STUDENTS + 1, Len(idx))
    ELSE idx

\* unassigned.head(MAX_STUDENTS) when the capacity is exceeded
FirstMax(idx) ==
    IF Len(idx) > MAX_STUDENTS THEN SubSeq(idx, 1, MAX_STUDENTS) ELSE idx

\* Mutant: the division is by all groups, not by the groups still to fill
students_for_group_AllGroups(i, remaining_students) ==
    LET remaining_groups == Len(all_groups)
        base_per_group == remaining_students \div remaining_groups
        extra == IF i < (remaining_students % remaining_groups) THEN 1 ELSE 0
    IN  Min(base_per_group + extra, STUDENTS_PER_SUBGROUP)

\* Mutant: the ceiling off by one
students_for_group_LowCap(i, remaining_students) ==
    LET remaining_groups == Len(all_groups) - i
        base_per_group == remaining_students \div remaining_groups
        extra == IF i < (remaining_students % remaining_groups) THEN 1 ELSE 0
    IN  Min(base_per_group + extra, STUDENTS_PER_SUBGROUP - 1)

\* i is the 0-based enumerate index of the group, remaining_students > 0
students_for_group(i, remaining_students) ==
    LET remaining_groups == Len(all_groups) - i
        base_per_group == remaining_students \div remaining_groups
        extra == IF i < (remaining_students % remaining_groups) THEN 1 ELSE 0
    IN  Min(base_per_group + extra, STUDENTS_PER_SUBGROUP)

\* The distribution loop from group i on: the number of students planned for
\* each of the groups i .. 24 (0 for the groups after the break).
RECURSIVE DistributionLoop(_, _, _)
DistributionLoop(i, students_assigned, num_unassigned) ==
    IF i = Len(all_groups) THEN <<>>
    ELSE IF students_assigned >= num_unassigned
         THEN [k \in 1..(Len(all_groups) - i) |-> 0]
    ELSE LET c == students_for_group(i, num_unassigned - students_assigned)
         IN  <<c>> \o DistributionLoop(i + 1, students_assigned + c, num_unassigned)

PlanCounts(num_unassigned) == DistributionLoop(0, 0, num_unassigned)

\* assignments.extend([(primary, sub)] * students_for_group), group k onwards
RECURSIVE Extend(_, _)
Extend(counts, k) ==
    IF k > Len(counts) THEN <<>>
    ELSE [j \in 1..counts[k] |-> all_groups[k]] \o Extend(counts, k + 1)

Assignments(num_unassigned) == Extend(PlanCounts(num_unassigned), 1)

Reverse(a) == [j \in 1..Len(a) |-> a[Len(a) + 1 - j]]

Rotate(a, d) == [j \in 1..Len(a) |-> a[((j - 1 + d) % Len(a)) + 1]]

\* Mutant: the list is resampled with replacement (random.choices) instead
\* of shuffled
Shuffles_Choices(a) ==
    IF Len(a) <= MaxFullShuffle
    THEN [1..Len(a) -> Range(a)]
    ELSE {a, Reverse(a), Rotate(a, 1), Rotate(a, Len(a) \div 3)}

\* random.shuffle(assignments): the orders the list can end in.  Every
\* permutation for lists of at most MaxFullShuffle elements; for longer lists
\* the outcomes drawn are the list itself, its reverse and its rotations by
\* one and by a third of its length.
Shuffles(a) ==
    IF Len(a) <= MaxFullShuffle
    THEN {[j \in 1..Len(a) |-> a[p[j]]] : p \in Permutations(1..Len(a))}
    ELSE {a, Reverse(a), Rotate(a, 1), Rotate(a, Len(a) \div 3)}

\* Mutant: the warning reports the number of unassigned students itself
CapacityWarning_Total(df) ==
    LET num_unassigned == Len(UnassignedIndex(df))
    IN  IF num_unassigned > MAX_STUDENTS THEN num_unassigned ELSE 0

\* The capacity st.warning: how many students it says will remain unassigned.
CapacityWarning(df) ==
    LET num_unassigned == Len(UnassignedIndex(df))
    IN  IF num_unassigned > MAX_STUDENTS THEN num_unassigned - MAX_STUDENTS ELSE 0

\* The loop "for idx, (primary, sub) in zip(unassigned.index, assignments)":
\* its iterations lo .. hi, in order (split in halves to keep the evaluation
\* shallow): df.at[idx, 'primary_group'] = primary; df.at[idx, 'subgroup'] = sub
RECURSIVE AssignLoop(_, _, _, _, _)
AssignLoop(df, index, assignments, lo, hi) ==
    IF lo > hi THEN df
    ELSE IF lo = hi
         THEN [df EXCEPT ![index[lo]].primary_group = assignments[lo][1],
                         ![index[lo]].subgroup = assignments[lo][2]]
    ELSE LET mid == (lo + hi) \div 2
             done == AssignLoop(df, index, assignments, lo, mid)
         IN  \* df.at[...] = ... writes into existing rows: the row count stays
             IF Len(done) = Len(df)
             THEN AssignLoop(done, index, assignments, mid + 1, hi)
             ELSE done

\* zip stops at the shorter of the two
ZipLen(index, assignments) == Min(Len(index), Len(assignments))

\* Mutant: the loop runs over the first rows of df, not over the unassigned rows
assign_groups_AllRows(df, shuffled) ==
    LET index == UnassignedIndex(df)
        rows == [i \in 1..Len(df) |-> i]
    IN  IF Len(index) = 0 THEN df
        ELSE AssignLoop(df, rows, shuffled, 1, ZipLen(rows, shuffled))

assign_groups_ReturnsSubset(df, shuffled) ==
    LET index == UnassignedIndex(df)
        placed == AssignLoop(df, FirstMax(index), shuffled,
                             1, ZipLen(FirstMax(index), shuffled))
    IN  IF Len(index) = 0 THEN df
        ELSE [j \in 1..Len(index) |-> placed[index[j]]]

\* assign_groups(df) when random.shuffle leaves the list as `shuffled`
assign_groups(df, shuffled) ==
    LET index == UnassignedIndex(df)
    IN  IF Len(index) = 0 THEN df
        ELSE AssignLoop(df, FirstMax(index), shuffled,
                        1, ZipLen(FirstMax(index), shuffled))

\* The lists random.shuffle can leave inside assign_groups(df)
ShuffleOutcomes(df) ==
    Shuffles(Assignments(Len(FirstMax(UnassignedIndex(df)))))

(***************************************************************************)
(* Handlers                                                                *)
(***************************************************************************)

\* What a student can type as index number: a valid STUBTECH number in upper
\* or lower case, or text that is no STUBTECH number, or nothing.
IndexInputs ==
    {[digits |-> d, form |-> f] : d \in 1..MaxId, f \in {"upper", "lower"}}
        \cup {[digits |-> 0, form |-> "other"], [digits |-> 0, form |-> "empty"]}

\* .strip().upper()
StripUpper(raw) ==
    IF raw.form = "lower" THEN [raw EXCEPT !.form = "upper"] ELSE raw

\* re.match(r'^STUBTECH\d{6}$', index_number)
validate_index_format(index_number) == index_number.form = "upper"

NameInputs == {"", "Al", "Ama"}

NameLen(name) == CASE name = "" -> 0 [] name = "Al" -> 2 [] name = "Ama" -> 3 [] OTHER -> 4

IndexNumbers(df) == {df[i].index_number : i \in 1..Len(df)}

NewStudent(name, index_number, now) ==
    [name |-> name, index_number |-> index_number, primary_group |-> "",
     subgroup |-> "", timestamp |-> now]

\* load_data() of a stored "[]" gives pd.DataFrame([]), a frame without
\* columns: df['primary_group'] (line 452, run on every script run, before the
\* admin panel is drawn) and df['index_number'] then raise KeyError.
NoColumns == stored /\ Len(records) = 0

\* The browser sessions, and a session whose script is not running
Sessions == {"s1", "s2"}

Idle == [pc |-> "idle", loaded |-> <<>>, df |-> <<>>, nocolumns |-> FALSE,
         op |-> "", msg |-> ""]

\* What the submitted registration form shows, df being the frame the script
\* run loaded: the KeyError of the duplicate hint (line 403) on a frame without
\* columns, else the first failing validation, else the success
RegistrationOutcome(df, nocolumns, name, index_number) ==
    IF nocolumns /\ validate_index_format(index_number) THEN "KeyError"
    ELSE IF name = "" \/ index_number.form = "empty" THEN "fill_fields"
    ELSE IF ~validate_index_format(index_number) THEN "invalid_format"
    ELSE IF index_number \in IndexNumbers(df) THEN "duplicate"
    ELSE IF NameLen(name) < MinNameLen THEN "name_too_short"
    ELSE "registered"

\* Tab 1, the registration form submitted with (name, raw index number)
Register(name, raw) ==
    LET index_number == StripUpper(raw)
        outcome == RegistrationOutcome(records, NoColumns, name, index_number)
    IN  /\ clock < MaxClock
        /\ UNCHANGED session
        /\ before' = records
        /\ lastOp' = "register"
        /\ msg' = outcome
        /\ warning' = 0
        /\ IF outcome = "registered"
           THEN /\ records' = Append(records, NewStudent(name, index_number, clock + 1))
                /\ clock' = clock + 1
                /\ stored' = TRUE
           ELSE UNCHANGED <<records, clock, stored>>

\* Admin panel, the "Assign Groups" button
AssignGroupsButton ==
    /\ ~NoColumns
    /\ UNCHANGED session
    /\ before' = records
    /\ lastOp' = "assign"
    /\ IF Len(records) = 0
       THEN /\ msg' = "no_students"
            /\ warning' = 0
            /\ UNCHANGED <<records, stored>>
       ELSE /\ msg' = "assigned"
            /\ warning' = CapacityWarning(records)
            /\ \E shuffled \in ShuffleOutcomes(records) :
                   records' = assign_groups(records, shuffled)
            /\ stored' = TRUE
    /\ UNCHANGED clock

\* Mutant: only primary_group is cleared
ClearGroups_PrimaryOnly(df) ==
    [i \in 1..Len(df) |-> [df[i] EXCEPT !.primary_group = ""]]

\* Mutant: only subgroup is cleared
ClearGroups_SubgroupOnly(df) ==
    [i \in 1..Len(df) |-> [df[i] EXCEPT !.subgroup = ""]]

\* df['primary_group'] = ''; df['subgroup'] = ''
ClearGroups(df) ==
    [i \in 1..Len(df) |-> [df[i] EXCEPT !.primary_group = "", !.subgroup = ""]]

\* Admin panel, the "Clear All Assignments" button
ClearAllAssignments ==
    /\ ~NoColumns
    /\ UNCHANGED session
    /\ before' = records
    /\ lastOp' = "clear"
    /\ msg' = "cleared"
    /\ warning' = 0
    /\ records' = ClearGroups(records)
    /\ stored' = TRUE
    /\ UNCHANGED clock

\* One line "INDEX_NUMBER, FULL_NAME" of the manual entry text area: a
\* STUBTECH number typed in lower case, or a line whose number is malformed
ManualLine(d) ==
    [index |-> [digits |-> d, form |-> IF d = 0 THEN "other" ELSE "lower"],
     name |-> "Ama"]

\* The text areas submitted: n lines with the numbers first, first + 1, ...
\* (wrapping around after MaxId, so that a long entry repeats a number), and
\* the same entries with a malformed first line
ManualInputs ==
    {[j \in 1..n |-> ManualLine(IF bad /\ j = 1 THEN 0 ELSE ((first + j - 2) % MaxId) + 1)] :
        n \in 1..MaxLines, first \in 1..MaxId, bad \in BOOLEAN}

\* new_students: one record per line whose index number has the format
NewStudents(lines, now) ==
    LET valid == SelectSeq(lines, LAMBDA l : validate_index_format(StripUpper(l.index)))
    IN  [i \in 1..Len(valid) |-> NewStudent(valid[i].name, StripUpper(valid[i].index), now)]

\* Admin panel, the "Add Students" button of the manual data entry
ManualEntry(lines) ==
    LET new_students == NewStudents(lines, clock + 1)
    IN  /\ ~NoColumns
        /\ clock < MaxClock
        /\ UNCHANGED session
        /\ before' = records
        /\ lastOp' = "manual"
        /\ warning' = 0
        /\ IF Len(new_students) > 0
           THEN /\ records' = records \o new_students
                /\ msg' = "added"
                /\ clock' = clock + 1
                /\ stored' = TRUE
           ELSE /\ msg' = "no_valid_data"
                /\ UNCHANGED <<records, clock, stored>>

Init ==
    /\ records = <<>>
    /\ before = <<>>
    /\ lastOp = "start"
    /\ msg = ""
    /\ warning = 0
    /\ clock = 0
    /\ stored = FALSE
    /\ session = [s \in Sessions |-> Idle]

RegisterForm == \E name \in NameInputs, raw \in IndexInputs : Register(name, raw)

AddStudents == \E lines \in ManualInputs : ManualEntry(lines)

Next ==
    \/ RegisterForm
    \/ AddStudents
    \/ AssignGroupsButton
    \/ ClearAllAssignments

Spec == Init /\ [][Next]_vars

(***************************************************************************)
(* The same handlers on a store that already holds a cohort of n students, *)
(* none of them assigned yet (n registrations, or one manual entry of n    *)
(* lines), for every n up to MaxCohort.                                    *)
(***************************************************************************)
Cohort(n) ==
    [i \in 1..n |-> NewStudent("Ama", [digits |-> MaxId + i, form |-> "upper"], 0)]

InitCohort ==
    /\ \E n \in 0..MaxCohort : records = Cohort(n)
    /\ before = records
    /\ lastOp = "start"
    /\ msg = ""
    /\ warning = 0
    /\ clock = 0
    /\ stored = (Len(records) > 0)
    /\ session = [s \in Sessions |-> Idle]

LateRegister ==
    /\ clock < MaxLate
    /\ Register("Kofi", [digits |-> clock + 1, form |-> "lower"])

NextCohort ==
    \/ LateRegister
    \/ AssignGroupsButton

SpecCohort == InitCohort /\ [][NextCohort]_vars

(***************************************************************************)
(* The admin's round trip on a stored cohort: Assign Groups, then Clear All *)
(* Assignments, then Assign Groups again, with no registration in between. *)
(***************************************************************************)
FirstAssign == lastOp = "start" /\ AssignGroupsButton

ClearAfterAssign == lastOp = "assign" /\ ClearAllAssignments

AssignAgain == lastOp = "clear" /\ AssignGroupsButton

NextRoundTrip ==
    \/ FirstAssign
    \/ ClearAfterAssign
    \/ AssignAgain

SpecRoundTrip == InitCohort /\ [][NextRoundTrip]_vars

(***************************************************************************)
(* Two browser sessions.  Streamlit runs the script of each session in its *)
(* own thread: a script run loads the record set (line 371), and its       *)
(* handler changes the loaded df and saves it; the file is neither locked  *)
(* nor re-read in between, so the two runs interleave at load and save.    *)
(* Each session performs one mutating operation.                           *)
(***************************************************************************)
InitSessions ==
    /\ \E n \in 0..MaxStored : records = Cohort(n)
    /\ before = records
    /\ lastOp = "start"
    /\ msg = ""
    /\ warning = 0
    /\ clock = 0
    /\ stored = (Len(records) > 0)
    /\ session = [s \in Sessions |-> Idle]

\* df = load_data() at the start of the script run of session s
SessionLoad(s) ==
    /\ session[s].pc = "idle"
    /\ session' = [session EXCEPT ![s] = [Idle EXCEPT !.pc = "loaded",
                                                      !.loaded = records,
                                                      !.df = records,
                                                      !.nocolumns = NoColumns]]
    /\ UNCHANGED <<records, before, lastOp, msg, warning, clock, stored>>

\* the handler of session s ends: what it showed and the df it holds
Finish(s, op, outcome, df) ==
    /\ session' = [session EXCEPT ![s].pc = "done", ![s].op = op,
                                  ![s].msg = outcome, ![s].df = df]
    /\ before' = session[s].loaded
    /\ lastOp' = op
    /\ msg' = outcome

\* session s submits the registration form
SessionRegister(s, name, raw) ==
    LET index_number == StripUpper(raw)
        loaded == session[s].loaded
        outcome == RegistrationOutcome(loaded, session[s].nocolumns, name, index_number)
        df == IF outcome = "registered"
              THEN Append(loaded, NewStudent(name, index_number, clock + 1))
              ELSE loaded
    IN  /\ session[s].pc = "loaded"
        /\ clock < MaxClock
        /\ Finish(s, "register", outcome, df)
        /\ warning' = 0
        /\ IF outcome = "registered"
           THEN /\ records' = df
                /\ clock' = clock + 1
                /\ stored' = TRUE
           ELSE UNCHANGED <<records, clock, stored>>

\* session s presses "Assign Groups"
SessionAssign(s) ==
    LET loaded == session[s].loaded
    IN  /\ session[s].pc = "loaded"
        /\ ~session[s].nocolumns
        /\ IF Len(loaded) = 0
           THEN /\ Finish(s, "assign", "no_students", loaded)
                /\ warning' = 0
                /\ UNCHANGED <<records, stored>>
           ELSE \E shuffled \in ShuffleOutcomes(loaded) :
                    /\ Finish(s, "assign", "assigned", assign_groups(loaded, shuffled))
                    /\ warning' = CapacityWarning(loaded)
                    /\ records' = assign_groups(loaded, shuffled)
                    /\ stored' = TRUE
        /\ UNCHANGED clock

\* session s presses "Clear All Assignments"
SessionClear(s) ==
    /\ session[s].pc = "loaded"
    /\ ~session[s].nocolumns
    /\ Finish(s, "clear", "cleared", ClearGroups(session[s].loaded))
    /\ warning' = 0
    /\ records' = ClearGroups(session[s].loaded)
    /\ stored' = TRUE
    /\ UNCHANGED clock

SessionsLoad == \E s \in Sessions : SessionLoad(s)

SessionsRegister ==
    \E s \in Sessions, d \in 1..MaxId :
        SessionRegister(s, "Ama", [digits |-> d, form |-> "upper"])

SessionsAssign == \E s \in Sessions : SessionAssign(s)

SessionsClear == \E s \in Sessions : SessionClear(s)

NextSessions ==
    \/ SessionsLoad
    \/ SessionsRegister
    \/ SessionsAssign
    \/ SessionsClear

SpecSessions == InitSessions /\ [][NextSessions]_vars

(***************************************************************************)
(* The handlers together with the admin's direct JSON editor, which can    *)
(* store any group fields.                                                 *)
(***************************************************************************)
EditedPrimary == {NaN, "", "A"}
EditedSubgroup == {"", "3"}

\* Admin panel, "Save JSON": the text of DATA_FILE with the group fields of
\* row i edited
SaveJSON(i, primary, sub) ==
    /\ stored
    /\ ~NoColumns
    /\ i \in 1..Len(records)
    /\ before' = records
    /\ lastOp' = "json"
    /\ msg' = "json_saved"
    /\ warning' = 0
    /\ records' = [records EXCEPT ![i].primary_group = primary, ![i].subgroup = sub]
    /\ UNCHANGED <<clock, stored, session>>

NextRegister == Register("Ama", [digits |-> clock + 1, form |-> "upper"])

JSONEditor ==
    \E i \in 1..Len(records), primary \in EditedPrimary, sub \in EditedSubgroup :
        SaveJSON(i, primary, sub)

NextEdit ==
    \/ NextRegister
    \/ JSONEditor
    \/ AssignGroupsButton
    \/ ClearAllAssignments

SpecEdit == Init /\ [][NextEdit]_vars

(***************************************************************************)
(* Properties                                                              *)
(***************************************************************************)
Cells == 1..Len(all_groups)

BothSet(r) == r.primary_group \in Range(primary_groups) /\ r.subgroup \in Range(subgroups)

Unset(v) == v = "" \/ v = NaN

BothUnset(r) == Unset(r.primary_group) /\ Unset(r.subgroup)

\* exactly one of the two group fields is set
PartiallySet(r) == Unset(r.primary_group) # Unset(r.subgroup)

NumUnassigned(df) == Len(UnassignedIndex(df))

InCell(r, k) == r.primary_group = all_groups[k][1] /\ r.subgroup = all_groups[k][2]

\* number of members of cell k in df
CellSize(df, k) == Cardinality({i \in 1..Len(df) : InCell(df[i], k)})

NumAssigned(df) == Cardinality({i \in 1..Len(df) : BothSet(df[i])})

\* the last handler was assign_groups, run on a non-empty record set
Assigned == lastOp = "assign" /\ msg = "assigned"

\* rows that were unassigned when the last handler started and are placed now
NewlyAssigned ==
    {i \in 1..Len(before) : IsUnassigned(before[i]) /\ BothSet(records[i])}

\* per-cell numbers of students the last assign_groups call placed
NewSizes ==
    LET new == NewlyAssigned
    IN  [k \in Cells |-> Cardinality({i \in new : InCell(records[i], k)})]

RECURSIVE SumSeq(_, _)
SumSeq(s, k) == IF k > Len(s) THEN 0 ELSE s[k] + SumSeq(s, k + 1)

\* C1: for n <= 200 unassigned records (the only unassigned ones), one
\* assign_groups call plans exactly n cells: the per-cell counts of the
\* distribution loop sum to n, all n records end assigned, none is left
\* unassigned.
C1_PlanCoversAll ==
    (Assigned /\ NumUnassigned(before) <= MAX_STUDENTS) =>
        LET n == NumUnassigned(before)
        IN  /\ SumSeq(PlanCounts(n), 1) = n
            /\ Len(Assignments(n)) = n
            /\ Cardinality(NewlyAssigned) = n
            /\ NumUnassigned(records) = 0

C1_Witness ==
    /\ Assigned
    /\ NumUnassigned(before) = 199
    /\ NumUnassigned(records) = 0

\* C2: for n <= 200 unassigned records, the per-cell counts one assign_groups
\* call places (over all 25 cells, skipped cells counting 0) differ by at
\* most 1.
C2_Balanced ==
    (Assigned /\ NumUnassigned(before) <= MAX_STUDENTS) =>
        LET sizes == {NewSizes[k] : k \in Cells}
        IN  /\ \A a, b \in sizes : a - b <= 1
            /\ \A k \in Cells : NewSizes[k] = PlanCounts(NumUnassigned(before))[k]

C2_Witness ==
    /\ Assigned
    /\ NumUnassigned(before) = 60
    /\ {NewSizes[k] : k \in Cells} = {2, 3}

\* C3: the per-cell capacity is a hard ceiling: in every reachable state no
\* cell holds more than 8 participants and at most 200 are assigned in total.
C3_HardCeiling ==
    /\ NumAssigned(records) <= MAX_STUDENTS
    /\ \A k \in Cells : CellSize(records, k) <= STUDENTS_PER_SUBGROUP

\* C4: calling assign_groups twice in a row, with no registration or clear in
\* between, changes nothing on the second call.
C4_SecondCallNoOp ==
    [][(lastOp = "assign" /\ lastOp' = "assign") => records' = records]_vars

\* C5: assign_groups never reassigns a placed participant: every record with
\* primary_group and subgroup both set before the call has the same
\* primary_group and subgroup after it.
C5_NoReassign ==
    lastOp = "assign" =>
        /\ Len(records) = Len(before)
        /\ \A i \in 1..Len(before) :
               BothSet(before[i]) =>
                   /\ records[i].primary_group = before[i].primary_group
                   /\ records[i].subgroup = before[i].subgroup

C5_Witness ==
    /\ Assigned
    /\ \E i, j \in 1..Len(before) :
           /\ BothSet(before[i])
           /\ BothUnset(before[j])
           /\ BothSet(records[j])

\* C6: with n > 200 unassigned records and none assigned yet, assign_groups
\* reports an overflow of exactly n - 200 and ends with exactly 200 assigned,
\* every cell holding exactly 8, the other n - 200 records still present and
\* unassigned.
C6_OverCapacity ==
    (Assigned /\ NumUnassigned(before) > MAX_STUDENTS
              /\ NumUnassigned(before) = Len(before)) =>
        LET n == Len(before)
        IN  /\ warning = n - MAX_STUDENTS
            /\ Len(records) = n
            /\ NumAssigned(records) = MAX_STUDENTS
            /\ \A k \in Cells : CellSize(records, k) = STUDENTS_PER_SUBGROUP
            /\ Cardinality({i \in 1..n : BothUnset(records[i])}) = n - MAX_STUDENTS

C6_Witness ==
    /\ Assigned
    /\ Len(before) = 203
    /\ NumUnassigned(before) = 203
    /\ warning = 3
    /\ NumAssigned(records) = 200

\* C7: when the unassigned records exceed the capacity of 200, the records
\* one assign_groups call assigns are exactly the first 200 unassigned records
\* in record order, and the later ones stay unassigned, whatever the shuffle.
C7_FirstInOrder ==
    (Assigned /\ NumUnassigned(before) > MAX_STUDENTS) =>
        LET index == UnassignedIndex(before)
        IN  /\ NewlyAssigned = {index[j] : j \in 1..MAX_STUDENTS}
            /\ \A j \in (MAX_STUDENTS + 1)..Len(index) :
                   records[index[j]] = before[index[j]]

C7_Witness ==
    /\ Assigned
    /\ NumUnassigned(before) = 202
    /\ BothSet(records[200])
    /\ BothUnset(records[201])
    /\ BothUnset(records[202])

\* C8: a record with exactly one of primary_group / subgroup set makes the
\* assignment call fail: no record of the set is modified by the call and the
\* call does not report success.
C8_CorruptRejected ==
    (lastOp = "assign" /\ \E i \in 1..Len(before) : PartiallySet(before[i])) =>
        /\ records = before
        /\ msg # "assigned"

\* C9: every participant has primary_group and subgroup either both unset or
\* both set (primary_group in A..E, subgroup in 1..5), in every state reached
\* by registrations, assign_groups calls and Clear All Assignments.
C9_NeverPartial ==
    \A i \in 1..Len(records) :
        \/ records[i].primary_group = "" /\ records[i].subgroup = ""
        \/ BothSet(records[i])

C9_Witness ==
    /\ lastOp = "clear"
    /\ \E i \in 1..Len(before) : BothSet(before[i]) /\ BothUnset(records[i])

\* C10: for n = 27 unassigned records and none assigned before, cells (A,1)
\* and (A,2) are planned 2 each and each of the other 23 cells 1.
C10_FirstTwoCells ==
    (Assigned /\ Len(before) = 27 /\ NumUnassigned(before) = 27) =>
        /\ NewSizes[1] = 2
        /\ NewSizes[2] = 2
        /\ \A k \in 3..Len(all_groups) : NewSizes[k] = 1

\* C11: per-participant state machine.  A participant is created unassigned;
\* it moves from unassigned to assigned only in an assign_groups step and from
\* assigned to unassigned only in a Clear All Assignments step, which leaves
\* every participant unassigned; no other step changes a participant's cell,
\* and an assigned participant never moves from one cell to another.
C11_StateMachine ==
    LET old == 1..Len(before)
        SameCell(i) == /\ records[i].primary_group = before[i].primary_group
                       /\ records[i].subgroup = before[i].subgroup
    IN  /\ Len(records) >= Len(before)
        /\ \A i \in (Len(before) + 1)..Len(records) : BothUnset(records[i])
        /\ \A i \in old : ~(BothSet(before[i]) /\ BothSet(records[i]) /\ ~SameCell(i))
        /\ \A i \in old : (BothUnset(before[i]) /\ ~SameCell(i)) => lastOp = "assign"
        /\ \A i \in old : (BothSet(before[i]) /\ ~SameCell(i)) => lastOp = "clear"
        /\ lastOp = "clear" => \A i \in old : BothUnset(records[i])
        /\ lastOp \in {"register", "manual"} => \A i \in old : SameCell(i)

C11_Witness ==
    /\ lastOp = "clear"
    /\ Len(before) >= 2
    /\ \A i \in 1..Len(before) : BothSet(before[i])
    /\ \A i \in 1..Len(records) : BothUnset(records[i])

\* per-cell member counts of a record set
CellSizes(df) == [k \in Cells |-> CellSize(df, k)]

\* the record sets assign_groups(df) can return, one per shuffle outcome
AssignOutcomes(df) == {assign_groups(df, shuffled) : shuffled \in ShuffleOutcomes(df)}

\* number of cells the distribution loop plans at least one student for
PlannedCells(df) ==
    LET counts == PlanCounts(Len(FirstMax(UnassignedIndex(df))))
    IN  Cardinality({k \in Cells : counts[k] > 0})

\* C12: two runs of assign_groups on the same record set that differ only in
\* the shuffle outcome end with identical member counts in all 25 cells; only
\* the participant-to-cell mapping may differ, and a different mapping is
\* reachable whenever at least two cells are planned.
C12_CountsDeterministic ==
    LET outs == AssignOutcomes(records)
    IN  /\ Cardinality({CellSizes(r) : r \in outs}) = 1
        /\ PlannedCells(records) >= 2 => Cardinality(outs) >= 2

\* the shuffle outcome that is not the planned order has been taken: the
\* first student is in the last cell, the second in the first cell
C12_Witness ==
    /\ Assigned
    /\ NewlyAssigned = {1, 2}
    /\ InCell(records[1], Len(all_groups))
    /\ InCell(records[2], 1)
    /\ Cardinality(AssignOutcomes(before)) = 2

\* C13: round trip.  From a record set whose participants are all unassigned,
\* the per-cell counts after assign_groups, Clear All Assignments and
\* assign_groups again are the counts after the first assign_groups (`before`
\* of the state the clear leaves is the record set the first call returned).
C13_RoundTrip ==
    [][(lastOp = "clear" /\ lastOp' = "assign") =>
           CellSizes(records') = CellSizes(before)]_vars

\* the first assign_groups placed 27 students and the clear has unplaced them
\* all: the state the second assign_groups starts from
C13_Witness ==
    /\ lastOp = "clear"
    /\ Len(before) = 27
    /\ NumAssigned(before) = 27
    /\ CellSize(before, 1) = 2
    /\ NumUnassigned(records) = 27
    /\ \A r \in AssignOutcomes(records) : CellSize(r, 1) = 2 /\ NumAssigned(r) = 27

\* C14: participant codes are unique: no two records of the record set have
\* the same index_number, and a handler that is given an index_number already
\* present leaves the record set unchanged.
C14_UniqueCodes ==
    /\ \A i, j \in 1..Len(records) :
           i # j => records[i].index_number # records[j].index_number
    /\ msg = "duplicate" => records = before

\* rows the call of session s placed: unassigned in the frame it loaded, placed
\* in the frame it saved
PlacedBy(s) ==
    {i \in 1..Len(session[s].loaded) :
        IsUnassigned(session[s].loaded[i]) /\ BothSet(session[s].df[i])}

\* C15: no lost update.  When two sessions have each loaded the record set,
\* performed one mutating operation and saved, the stored record set holds
\* every participant whose registration reported success and every assignment
\* reported as made (an assignment taken back by the other session's Clear All
\* Assignments is not counted as lost).
C15_NoLostUpdate ==
    (\A s \in Sessions : session[s].pc = "done") =>
        \A s \in Sessions :
            /\ session[s].msg = "registered" =>
                   session[s].df[Len(session[s].df)].index_number
                       \in IndexNumbers(records)
            /\ (session[s].msg = "assigned"
                    /\ \A t \in Sessions : session[t].op # "clear") =>
                   \A i \in PlacedBy(s) :
                       /\ i <= Len(records)
                       /\ records[i] = session[s].df[i]

\* C16: over several assignment rounds with registrations in between and no
\* clear, the member counts of the 25 cells differ by at most 1 as long as no
\* cell is at the ceiling of 8.
C16_EvenAcrossRounds ==
    LET sizes == {CellSize(records, k) : k \in Cells}
    IN  (\A m \in sizes : m < STUDENTS_PER_SUBGROUP) =>
            \A m, n \in sizes : m - n <= 1

\* C17: for n in 0..200 the per-cell counts one assign_groups call plans are
\* non-increasing along the topology order (A,1), (A,2), ..., (E,5): the cells
\* that get base + 1 form a prefix, so each of the n records placed lands in a
\* cell planned no more than every earlier cell.
C17_NonIncreasing ==
    (Assigned /\ NumUnassigned(before) <= MAX_STUDENTS) =>
        LET counts == PlanCounts(NumUnassigned(before))
        IN  /\ \A k \in 1..(Len(all_groups) - 1) : counts[k] >= counts[k + 1]
            /\ \A k \in 1..(Len(all_groups) - 1) : NewSizes[k] >= NewSizes[k + 1]

\* C18: assign_groups changes nothing but the group fields of unassigned
\* records: it adds no record, removes none, keeps the order, leaves
\* index_number, name and timestamp of every record and the whole of every
\* assigned record as they were, and returns a record set without an unassigned
\* record unchanged.
C18_FrameEffect ==
    lastOp = "assign" =>
        /\ Len(records) = Len(before)
        /\ \A i \in 1..Len(before) :
               /\ records[i].index_number = before[i].index_number
               /\ records[i].name = before[i].name
               /\ records[i].timestamp = before[i].timestamp
               /\ ~IsUnassigned(before[i]) => records[i] = before[i]
        /\ NumUnassigned(before) = 0 => records = before

\* assign_groups ran on a record set holding an assigned record ahead of an
\* unassigned one with another index number, and changed only the latter
C18_Witness ==
    /\ Assigned
    /\ Len(records) = 2
    /\ Len(before) = 2
    /\ records[1] = before[1]
    /\ BothSet(before[1])
    /\ BothUnset(before[2])
    /\ BothSet(records[2])
    /\ records[2].index_number = before[2].index_number
    /\ records[2].index_number # records[1].index_number

====
